---- MODULE Spec2Model ----
(***************************************************************************)
(* JSONLocalDataSet (kedro/io/json_local.py): an adapter that encodes a    *)
(* value as JSON into a local file and decodes it back, on top of the      *)
(* versioned-path resolver of FilepathVersionMixIn.                        *)
(*                                                                         *)
(* The model holds the adapter's four fields, the local filesystem as a    *)
(* map from paths to nodes, the clock the resolver reads to generate a     *)
(* save version, and a record of the last call made on the adapter.        *)
(* File contents are sequences of lexical JSON tokens, whitespace          *)
(* included, written by an encoder that follows json.dump and read back    *)
(* by a recursive-descent decoder that follows json.load.                  *)
(***************************************************************************)
EXTENDS Integers, Sequences, FiniteSets, TLC

(***************************************************************************)
(* Bounds of the model.                                                    *)
(***************************************************************************)
\* The clock that generate_current_version() reads runs from 1 to MaxClock.
MaxClock == 2
\* An I/O failure during the write strikes after 0..MaxFailAt tokens.
MaxFailAt == 0

(***************************************************************************)
(* Python values.  Every value is a record [t, a, s]: t is the Python      *)
(* type, a the text of an atom (its str()), s the children of a container. *)
(* A dict's children are its items in insertion order, each an "item"      *)
(* whose children are <<key, value>>.                                      *)
(***************************************************************************)
PyVal(t, a, s) == [t |-> t, a |-> a, s |-> s]
PyNone == PyVal("none", "None", <<>>)
PyTrue == PyVal("bool", "True", <<>>)
PyFalse == PyVal("bool", "False", <<>>)
PyInt(a) == PyVal("int", a, <<>>)
PyStr(a) == PyVal("str", a, <<>>)
PyList(s) == PyVal("list", "", s)
PyTuple(s) == PyVal("tuple", "", s)
PyItem(k, v) == PyVal("item", "", <<k, v>>)
PyDict(s) == PyVal("dict", "", s)
\* An instance of a class json does not know (object()).
PyObject == PyVal("object", "", <<>>)
\* No value at all: the call raised, or has no return value.
NoVal == PyVal("absent", "", <<>>)

(***************************************************************************)
(* JSON text, as the sequence of its lexical tokens.                       *)
(***************************************************************************)
Tok(k, v) == [k |-> k, v |-> v]
NL == Tok("ws", "\n")
SP == Tok("ws", " ")
Punct(c) == Tok("punct", c)
Spaces(n) == [i \in 1..n |-> SP]
\* '\n' + ' ' * (indent * level)
NewlineIndent(indent, level) == <<NL>> \o Spaces(indent * level)

\* The outcome of an encoding: the tokens produced so far, and whether the
\* encoder ran to the end (ok) or raised TypeError after producing them.
EncOk(toks) == [toks |-> toks, ok |-> TRUE]
EncFail(toks) == [toks |-> toks, ok |-> FALSE]
EncThen(pre, r) == [toks |-> pre \o r.toks, ok |-> r.ok]

\* json.encoder: the keys a dict may have and the text each becomes.
IsKeyType(k) == k.t \in {"str", "int", "bool", "none"}
KeyText(k) ==
  CASE k.t = "str" -> k.a
    [] k.t = "int" -> k.a
    [] k.t = "bool" -> (IF k.a = "True" THEN "true" ELSE "false")
    [] OTHER -> "null"

RECURSIVE Encode(_, _, _)
RECURSIVE EncodeElems(_, _, _, _)
RECURSIVE EncodeItems(_, _, _, _)

\* The elements of a list from the i-th on, each after its separator.
EncodeElems(s, i, indent, level) ==
  IF i > Len(s) THEN EncOk(<<>>)
  ELSE LET sep == IF i = 1 THEN <<>> ELSE <<Punct(",")>> \o NewlineIndent(indent, level)
           one == EncThen(sep, Encode(s[i], indent, level))
       IN IF one.ok THEN EncThen(one.toks, EncodeElems(s, i + 1, indent, level))
          ELSE one

\* The items of a dict from the i-th on.  The key is checked before the
\* separator is written.
EncodeItems(s, i, indent, level) ==
  IF i > Len(s) THEN EncOk(<<>>)
  ELSE LET key == s[i].s[1]
           sep == IF i = 1 THEN <<>> ELSE <<Punct(",")>> \o NewlineIndent(indent, level)
           head == sep \o <<Tok("str", KeyText(key)), Punct(":"), SP>>
           one == EncThen(head, Encode(s[i].s[2], indent, level))
       IN IF ~IsKeyType(key) THEN EncFail(<<>>)
          ELSE IF one.ok THEN EncThen(one.toks, EncodeItems(s, i + 1, indent, level))
          ELSE one

\* json.dump(o, fp, indent=indent): the chunks of JSONEncoder.iterencode.
Encode(o, indent, level) ==
  CASE o.t = "none" -> EncOk(<<Tok("lit", "null")>>)
    [] o.t = "bool" -> EncOk(<<Tok("lit", IF o.a = "True" THEN "true" ELSE "false")>>)
    [] o.t = "int" -> EncOk(<<Tok("num", o.a)>>)
    [] o.t = "str" -> EncOk(<<Tok("str", o.a)>>)
    [] o.t \in {"list", "tuple"} ->
         IF o.s = <<>> THEN EncOk(<<Punct("["), Punct("]")>>)
         ELSE LET body == EncThen(<<Punct("[")>> \o NewlineIndent(indent, level + 1),
                                  EncodeElems(o.s, 1, indent, level + 1))
              IN IF body.ok
                 THEN EncOk(body.toks \o NewlineIndent(indent, level) \o <<Punct("]")>>)
                 ELSE body
    [] o.t = "dict" ->
         IF o.s = <<>> THEN EncOk(<<Punct("{"), Punct("}")>>)
         ELSE LET body == EncThen(<<Punct("{")>> \o NewlineIndent(indent, level + 1),
                                  EncodeItems(o.s, 1, indent, level + 1))
              IN IF body.ok
                 THEN EncOk(body.toks \o NewlineIndent(indent, level) \o <<Punct("}")>>)
                 ELSE body
    [] OTHER -> EncFail(<<>>)

(***************************************************************************)
(* json.load: a recursive-descent decoder over the tokens.  A parse result *)
(* is [ok, val, rest]: the value read and the tokens left after it.        *)
(***************************************************************************)
ParseOk(v, rest) == [ok |-> TRUE, val |-> v, rest |-> rest]
ParseFail == [ok |-> FALSE, val |-> NoVal, rest |-> <<>>]

RECURSIVE SkipWs(_)
SkipWs(toks) ==
  IF toks # <<>> /\ toks[1].k = "ws" THEN SkipWs(Tail(toks)) ELSE toks

IsPunct(toks, c) == toks # <<>> /\ toks[1] = Punct(c)

\* dict(pairs): a repeated key keeps its first position and takes the last value.
RECURSIVE PutItem(_, _, _)
PutItem(items, k, v) ==
  IF items = <<>> THEN <<PyItem(k, v)>>
  ELSE IF items[1].s[1] = k THEN <<PyItem(k, v)>> \o Tail(items)
  ELSE <<items[1]>> \o PutItem(Tail(items), k, v)

RECURSIVE ParseValue(_)
RECURSIVE ParseElems(_, _)
RECURSIVE ParseMembers(_, _)

\* After '[' and at least one element is expected: elements separated by ','.
ParseElems(toks, acc) ==
  LET one == ParseValue(toks)
      after == SkipWs(one.rest)
  IN IF ~one.ok THEN ParseFail
     ELSE IF IsPunct(after, ",") THEN ParseElems(Tail(after), Append(acc, one.val))
     ELSE IF IsPunct(after, "]") THEN ParseOk(PyList(Append(acc, one.val)), Tail(after))
     ELSE ParseFail

\* After '{': "key" : value pairs separated by ','.
ParseMembers(toks, acc) ==
  LET t == SkipWs(toks)
      colon == IF t = <<>> THEN <<>> ELSE SkipWs(Tail(t))
      one == IF IsPunct(colon, ":") THEN ParseValue(Tail(colon)) ELSE ParseFail
      after == SkipWs(one.rest)
      items == PutItem(acc, PyStr(t[1].v), one.val)
  IN IF t = <<>> \/ t[1].k # "str" THEN ParseFail
     ELSE IF ~one.ok THEN ParseFail
     ELSE IF IsPunct(after, ",") THEN ParseMembers(Tail(after), items)
     ELSE IF IsPunct(after, "}") THEN ParseOk(PyDict(items), Tail(after))
     ELSE ParseFail

ParseValue(toks) ==
  LET t == SkipWs(toks)
  IN IF t = <<>> THEN ParseFail
     ELSE CASE t[1].k = "lit" ->
                 ParseOk(CASE t[1].v = "null" -> PyNone
                           [] t[1].v = "true" -> PyTrue
                           [] OTHER -> PyFalse, Tail(t))
            [] t[1].k = "num" -> ParseOk(PyInt(t[1].v), Tail(t))
            [] t[1].k = "str" -> ParseOk(PyStr(t[1].v), Tail(t))
            [] t[1] = Punct("[") ->
                 IF IsPunct(SkipWs(Tail(t)), "]")
                 THEN ParseOk(PyList(<<>>), Tail(SkipWs(Tail(t))))
                 ELSE ParseElems(Tail(t), <<>>)
            [] t[1] = Punct("{") ->
                 IF IsPunct(SkipWs(Tail(t)), "}")
                 THEN ParseOk(PyDict(<<>>), Tail(SkipWs(Tail(t))))
                 ELSE ParseMembers(Tail(t), <<>>)
            [] OTHER -> ParseFail

\* json.load(fp): one document, nothing but whitespace after it.
Decode(toks) ==
  LET r == ParseValue(toks)
  IN IF r.ok /\ SkipWs(r.rest) = <<>> THEN r ELSE ParseFail

(***************************************************************************)
(* The local filesystem: a map from the paths that exist to their nodes.   *)
(* A path is the sequence of its components below the working directory,   *)
(* which always exists and is <<>>.                                        *)
(***************************************************************************)
DirNode == [kind |-> "dir", data |-> <<>>]
FileNode(data) == [kind |-> "file", data |-> data]

PathExists(fsys, p) == p = <<>> \/ p \in DOMAIN fsys
IsDir(fsys, p) == p = <<>> \/ (p \in DOMAIN fsys /\ fsys[p].kind = "dir")
IsFile(fsys, p) == p \in DOMAIN fsys /\ fsys[p].kind = "file"

\* Path.parent, Path.name, Path.absolute()
Parent(p) == SubSeq(p, 1, Len(p) - 1)
Name(p) == p[Len(p)]
Absolute(p) == <<"cwd">> \o p

\* p and every directory above it, the working directory excluded.
Prefixes(p) == {SubSeq(p, 1, n) : n \in 1..Len(p)}

\* The filesystem with the map m laid over it.
Overlay(m, fsys) ==
  [p \in DOMAIN m \cup DOMAIN fsys |-> IF p \in DOMAIN m THEN m[p] ELSE fsys[p]]

EmptyFs == [p \in {} |-> DirNode]
\* A filesystem holding the directory p and the directories above it.
DirsUpTo(p) == [q \in Prefixes(p) |-> DirNode]

\* The outcome of a step on the filesystem: the new filesystem and the
\* exception raised ("" when none).
FsOk(fsys) == [fs |-> fsys, err |-> ""]
FsErr(fsys, err) == [fs |-> fsys, err |-> err]

(***************************************************************************)
(* The adapter, its environment and the trace of the last call.            *)
(***************************************************************************)
VARIABLES
  filepath,    \* self._filepath
  load_args,   \* self._load_args
  save_args,   \* self._save_args
  version,     \* self._version
  fs,          \* the local filesystem
  clock,       \* the time generate_current_version() reads
  ctor,        \* the arguments the constructor was called with
  last,        \* the last call on the adapter and its outcome
  described,   \* what the last call returned, when it was describe()
  pending,     \* the value of the latest save(), if it completed without error
  saved        \* whether save() has been called

vars == <<filepath, load_args, save_args, version, fs, clock, ctor, last,
          described, pending, saved>>

\* Option mappings are functions from keyword to value.
NoArgs == [k \in {} |-> 0]
\* An optional mapping argument: None, or a mapping.
ArgNone == [given |-> FALSE, map |-> NoArgs]
ArgMap(m) == [given |-> TRUE, map |-> m]

\* version: None, or Version(load, save) with "" for a None attribute.
NoVersion == [on |-> FALSE, load |-> "", save |-> ""]
Version(load, save) == [on |-> TRUE, load |-> load, save |-> save]

default_save_args == ("indent" :> 4)
default_load_args == NoArgs

\* Faulty variant: the merge written the other way round, {**given, **defaults}.
MergeArgs_DefaultsWin(defaults, given) ==
  [k \in DOMAIN defaults \cup DOMAIN given |->
     IF k \in DOMAIN defaults THEN defaults[k] ELSE given[k]]

\* {**defaults, **given}
MergeArgs(defaults, given) ==
  [k \in DOMAIN defaults \cup DOMAIN given |->
     IF k \in DOMAIN given THEN given[k] ELSE defaults[k]]

\* {**defaults, **arg} if arg is not None else defaults
InitArgs(defaults, arg) ==
  IF arg.given THEN MergeArgs(defaults, arg.map) ELSE defaults

\* _describe()
Describe_ ==
  [filepath |-> filepath, load_args |-> load_args, save_args |-> save_args,
   version |-> version]

(***************************************************************************)
(* FilepathVersionMixIn: the versioned-path resolver.                      *)
(***************************************************************************)
\* generate_current_version(): the current time as text.
GenerateCurrentVersion(clk) == ToString(clk)
\* Version names are timestamps; they sort as text in the order of time.
VersionRank(v) == CHOOSE n \in 0..(MaxClock + 2) : ToString(n) = v

\* filepath / version / filepath.name
GetVersionedPath(fp, v) == fp \o <<v, Name(fp)>>

\* The outcome of a resolution: a path, or DataSetError.
Resolved(p) == [ok |-> TRUE, path |-> p]
Unresolved == [ok |-> FALSE, path |-> <<>>]

\* glob(filepath/*/name), the paths that exist
VersionedPaths(fsys, fp) ==
  {p \in DOMAIN fsys : /\ Len(p) = Len(fp) + 2
                       /\ SubSeq(p, 1, Len(fp)) = fp
                       /\ Name(p) = Name(fp)}

\* sorted(paths, reverse=True)[0]
LatestPath(paths, fp) ==
  CHOOSE p \in paths :
    \A q \in paths : VersionRank(q[Len(fp) + 1]) <= VersionRank(p[Len(fp) + 1])

\* _get_load_path(filepath, version)
GetLoadPath(fsys, fp, ver) ==
  IF ~ver.on THEN Resolved(fp)
  ELSE IF ver.load # "" THEN Resolved(GetVersionedPath(fp, ver.load))
  ELSE IF VersionedPaths(fsys, fp) = {} THEN Unresolved
  ELSE Resolved(LatestPath(VersionedPaths(fsys, fp), fp))

\* _get_save_path(filepath, version)
GetSavePath(fsys, fp, ver, clk) ==
  IF ~ver.on THEN Resolved(fp)
  ELSE LET v == IF ver.save # "" THEN ver.save ELSE GenerateCurrentVersion(clk)
       IN IF PathExists(fsys, GetVersionedPath(fp, v)) THEN Unresolved
          ELSE Resolved(GetVersionedPath(fp, v))

\* _check_paths_consistency(load_path, save_path): whether it passes.
CheckPathsConsistency(load_path, save_path) == load_path = save_path

(***************************************************************************)
(* The file operations the adapter's methods make.                         *)
(***************************************************************************)
\* Faulty variant: mkdir(parents=True) without exist_ok.
MkdirParents_NoExistOk(fsys, p) ==
  IF p # <<>> /\ PathExists(fsys, p) THEN FsErr(fsys, "FileExistsError")
  ELSE IF \E q \in Prefixes(p) : IsFile(fsys, q) THEN FsErr(fsys, "NotADirectoryError")
  ELSE FsOk(Overlay([q \in Prefixes(p) \ DOMAIN fsys |-> DirNode], fsys))

\* Path(p).mkdir(parents=True, exist_ok=True)
MkdirParents(fsys, p) ==
  IF \E q \in Prefixes(p) : IsFile(fsys, q)
  THEN FsErr(fsys, IF IsFile(fsys, p) THEN "FileExistsError" ELSE "NotADirectoryError")
  ELSE FsOk(Overlay([q \in Prefixes(p) \ DOMAIN fsys |-> DirNode], fsys))

\* Faulty variant: open(p, "a"), which keeps what the file holds.
OpenW_Append(fsys, p) ==
  IF IsDir(fsys, p) THEN FsErr(fsys, "IsADirectoryError")
  ELSE IF \E q \in Prefixes(Parent(p)) : IsFile(fsys, q) THEN FsErr(fsys, "NotADirectoryError")
  ELSE IF ~IsDir(fsys, Parent(p)) THEN FsErr(fsys, "FileNotFoundError")
  ELSE IF IsFile(fsys, p) THEN FsOk(fsys)
  ELSE FsOk(Overlay(p :> FileNode(<<>>), fsys))

\* open(p, "w"): the file is created, or emptied if it exists.
OpenW(fsys, p) ==
  IF IsDir(fsys, p) THEN FsErr(fsys, "IsADirectoryError")
  ELSE IF \E q \in Prefixes(Parent(p)) : IsFile(fsys, q) THEN FsErr(fsys, "NotADirectoryError")
  ELSE IF ~IsDir(fsys, Parent(p)) THEN FsErr(fsys, "FileNotFoundError")
  ELSE FsOk(Overlay(p :> FileNode(<<>>), fsys))

\* Faulty variant: open(p, "a+"), which creates a missing file.
OpenR_Creates(fsys, p) ==
  IF IsFile(fsys, p) THEN FsOk(fsys)
  ELSE IF IsDir(fsys, p) THEN FsErr(fsys, "IsADirectoryError")
  ELSE IF \E q \in Prefixes(Parent(p)) : IsFile(fsys, q) THEN FsErr(fsys, "NotADirectoryError")
  ELSE IF ~IsDir(fsys, Parent(p)) THEN FsErr(fsys, "FileNotFoundError")
  ELSE FsOk(Overlay(p :> FileNode(<<>>), fsys))

\* open(p, "r")
OpenR(fsys, p) ==
  IF IsFile(fsys, p) THEN FsOk(fsys)
  ELSE IF IsDir(fsys, p) THEN FsErr(fsys, "IsADirectoryError")
  ELSE IF \E q \in Prefixes(Parent(p)) : IsFile(fsys, q) THEN FsErr(fsys, "NotADirectoryError")
  ELSE FsErr(fsys, "FileNotFoundError")

\* What the device does during a write: nothing, or fail once `after`
\* tokens are written.
NoFault == [on |-> FALSE, after |-> 0]
FaultAfter(k) == [on |-> TRUE, after |-> k]
Faults == {NoFault} \cup {FaultAfter(k) : k \in 0..MaxFailAt}

\* json.dump(data, local_file, **args) into the open file, closed on leaving
\* the with block: what reaches the file, and the exception raised.
Dump(data, args, fault) ==
  LET enc == Encode(data, args["indent"], 0)
  IN IF fault.on /\ fault.after < Len(enc.toks)
     THEN [toks |-> SubSeq(enc.toks, 1, fault.after), err |-> "OSError"]
     ELSE [toks |-> enc.toks, err |-> IF enc.ok THEN "" ELSE "TypeError"]

(***************************************************************************)
(* The adapter's methods.  Each gives the outcome of the whole call:       *)
(* the filesystem after it, the exception raised ("" when none) and the    *)
(* statement that raised it, the path it resolved, and what it returned.   *)
(***************************************************************************)
Outcome(fsys, err, at, path, ret, flag) ==
  [fs |-> fsys, err |-> err, at |-> at, path |-> path, ret |-> ret, flag |-> flag]

\* json.load on the opened file.
ReadOpened(fsys, p, doc) ==
  IF ~doc.ok
  THEN Outcome(fsys, "JSONDecodeError", "load", p, NoVal, FALSE)
  ELSE Outcome(fsys, "", "", p, doc.val, FALSE)

\* Faulty variant: a missing file is read as an empty document.
LoadFrom_EmptyOnMissing(opened, p) ==
  IF opened.err = "FileNotFoundError"
  THEN Outcome(opened.fs, "", "", p, PyDict(<<>>), FALSE)
  ELSE IF opened.err # ""
  THEN Outcome(opened.fs, opened.err, "open", p, NoVal, FALSE)
  ELSE ReadOpened(opened.fs, p, Decode(opened.fs[p].data))

\* with open(load_path, "r") as local_file: return json.load(local_file)
LoadFrom(opened, p) ==
  IF opened.err # ""
  THEN Outcome(opened.fs, opened.err, "open", p, NoVal, FALSE)
  ELSE ReadOpened(opened.fs, p, Decode(opened.fs[p].data))

\* _load(), the load path resolved
LoadAt(fsys, load_path) ==
  IF ~load_path.ok
  THEN Outcome(fsys, "DataSetError", "load_path", <<>>, NoVal, FALSE)
  ELSE LoadFrom(OpenR(fsys, load_path.path), load_path.path)

\* _load()
Load_(fsys) == LoadAt(fsys, GetLoadPath(fsys, filepath, version))

\* The tokens written to the open file p land after what it holds.
WriteTo(fsys, p, toks) == Overlay(p :> FileNode(fsys[p].data \o toks), fsys)

\* Faulty variant: the data is dumped to a temporary file that replaces the
\* target only when the dump succeeds.
DumpInto_Atomic(before, opened, p, dumped) ==
  IF opened.err # ""
  THEN Outcome(opened.fs, opened.err, "open", p, NoVal, FALSE)
  ELSE IF dumped.err # ""
  THEN Outcome(before, dumped.err, "dump", p, NoVal, FALSE)
  ELSE Outcome(WriteTo(opened.fs, p, dumped.toks), "", "", p, NoVal, FALSE)

\* with save_path.open("w") as local_file: json.dump(data, local_file, ...)
\* on the filesystem `before`.
DumpInto(before, opened, p, dumped) ==
  IF opened.err # ""
  THEN Outcome(opened.fs, opened.err, "open", p, NoVal, FALSE)
  ELSE IF dumped.err # ""
  THEN Outcome(WriteTo(opened.fs, p, dumped.toks), dumped.err, "dump", p, NoVal, FALSE)
  ELSE Outcome(WriteTo(opened.fs, p, dumped.toks), "", "", p, NoVal, FALSE)

\* save_path.parent.mkdir(...) done, the with block follows
WriteUnder(made, p, data, fault) ==
  IF made.err # ""
  THEN Outcome(made.fs, made.err, "mkdir", p, NoVal, FALSE)
  ELSE DumpInto(made.fs, OpenW(made.fs, p), p, Dump(data, save_args, fault))

\* _save(data), the save path resolved, up to the end of the with block
WriteAt(fsys, save_path, data, fault) ==
  IF ~save_path.ok
  THEN Outcome(fsys, "DataSetError", "save_path", <<>>, NoVal, FALSE)
  ELSE WriteUnder(MkdirParents(fsys, Parent(save_path.path)), save_path.path,
                  data, fault)

\* _save(data), up to the end of the with block: resolve the save path,
\* make its parent directories, open it for writing and dump the data.
WriteFile(fsys, clk, data, fault) ==
  WriteAt(fsys, GetSavePath(fsys, filepath, version, clk), data, fault)

\* The filesystem without the file p.
Unlink(fsys, p) == [q \in DOMAIN fsys \ {p} |-> fsys[q]]

\* Faulty variant: a failed consistency check removes the file just written.
CheckWritten_Rollback(written, load_path) ==
  IF ~load_path.ok
  THEN Outcome(written.fs, "DataSetError", "load_path", written.path, NoVal, FALSE)
  ELSE IF ~CheckPathsConsistency(Absolute(load_path.path), Absolute(written.path))
  THEN Outcome(Unlink(written.fs, written.path), "DataSetError", "check",
               written.path, NoVal, FALSE)
  ELSE written

\* load_path = ...; self._check_paths_consistency(load_path, save_path)
CheckWritten(written, load_path) ==
  IF ~load_path.ok
  THEN Outcome(written.fs, "DataSetError", "load_path", written.path, NoVal, FALSE)
  ELSE IF ~CheckPathsConsistency(Absolute(load_path.path), Absolute(written.path))
  THEN Outcome(written.fs, "DataSetError", "check", written.path, NoVal, FALSE)
  ELSE written

\* _save(data), the file written
SaveWritten(written) ==
  IF written.err # "" THEN written
  ELSE CheckWritten(written, GetLoadPath(written.fs, filepath, version))

\* _save(data): write the file, then resolve the load path again and check
\* it against the save path.
Save_(fsys, clk, data, fault) == SaveWritten(WriteFile(fsys, clk, data, fault))

\* Faulty variant: Path(path).is_dir() for is_file().
ExistsAt_IsDir(fsys, path) ==
  IF ~path.ok
  THEN Outcome(fsys, "", "", <<>>, NoVal, FALSE)
  ELSE Outcome(fsys, "", "", path.path, NoVal, IsDir(fsys, path.path))

\* Faulty variant: no try/except around the resolution.
ExistsAt_NoCatch(fsys, path) ==
  IF ~path.ok
  THEN Outcome(fsys, "DataSetError", "load_path", <<>>, NoVal, FALSE)
  ELSE Outcome(fsys, "", "", path.path, NoVal, IsFile(fsys, path.path))

\* _exists(), the resolution of the load path tried
ExistsAt(fsys, path) ==
  IF ~path.ok
  THEN Outcome(fsys, "", "", <<>>, NoVal, FALSE)
  ELSE Outcome(fsys, "", "", path.path, NoVal, IsFile(fsys, path.path))

\* _exists()
Exists_(fsys) == ExistsAt(fsys, GetLoadPath(fsys, filepath, version))

\* Faulty variant: a method that drops the version it was built with.
SelfReset ==
  /\ version' = NoVersion
  /\ UNCHANGED <<filepath, load_args, save_args>>

\* None of the methods assigns to an attribute of self.
SelfUnchanged == UNCHANGED <<filepath, load_args, save_args, version>>

(***************************************************************************)
(* The calls a client makes, and the values it saves.                      *)
(***************************************************************************)
Call(op, arg, out) ==
  [op |-> op, arg |-> arg, err |-> out.err, at |-> out.at, path |-> out.path,
   ret |-> out.ret, flag |-> out.flag]
NoCall ==
  [op |-> "", arg |-> NoVal, err |-> "", at |-> "", path |-> <<>>,
   ret |-> NoVal, flag |-> FALSE]
NoConfig ==
  [filepath |-> <<>>, load_args |-> NoArgs, save_args |-> NoArgs,
   version |-> NoVersion]

\* The example of the class docstring, shortened.
MyDict ==
  PyDict(<<PyItem(PyStr("a_string"), PyStr("Hello")),
           PyItem(PyStr("a_list"), PyList(<<PyInt("1"), PyNone>>))>>)
Values ==
  { MyDict,
    PyInt("1"),
    PyList(<<>>),
    PyTuple(<<PyInt("1"), PyTrue>>),
    PyDict(<<PyItem(PyInt("1"), PyStr("a"))>>),
    PyList(<<PyInt("1"), PyObject>>) }

FilePaths == {<<"test.json">>, <<"data", "test.json">>}
\* The (load_args, save_args) the adapter is built with.
ArgChoices ==
  { <<ArgNone, ArgNone>>,
    <<ArgNone, ArgMap("indent" :> 2)>>,
    <<ArgMap("strict" :> 0), ArgMap("ensure_ascii" :> 0)>> }
VersionChoices ==
  {NoVersion, Version("", ""), Version("1", "1"), Version("1", "2")}
\* What the disk may hold when the adapter is built: nothing, or a
\* directory at filepath itself.
Layouts(fp) == {EmptyFs, DirsUpTo(fp)}

Init ==
  \E fp \in FilePaths, args \in ArgChoices, ver \in VersionChoices :
    /\ ctor = [filepath |-> fp, load_args |-> args[1], save_args |-> args[2],
               version |-> ver]
    /\ filepath = fp
    /\ load_args = InitArgs(default_load_args, args[1])
    /\ save_args = InitArgs(default_save_args, args[2])
    /\ version = ver
    /\ fs \in Layouts(fp)
    /\ clock = 1
    /\ last = NoCall
    /\ described = NoConfig
    /\ pending = NoVal
    /\ saved = FALSE

Describe ==
  /\ described' = Describe_
  /\ last' = Call("describe", NoVal, Outcome(fs, "", "", <<>>, NoVal, FALSE))
  /\ SelfUnchanged
  /\ UNCHANGED <<fs, clock, ctor, pending, saved>>

Load ==
  LET out == Load_(fs)
  IN /\ last' = Call("load", NoVal, out)
     /\ fs' = out.fs
     /\ described' = NoConfig
     /\ SelfUnchanged
     /\ UNCHANGED <<clock, ctor, pending, saved>>

Save ==
  \E data \in Values, fault \in Faults :
    LET out == Save_(fs, clock, data, fault)
    IN /\ last' = Call("save", data, out)
       /\ fs' = out.fs
       /\ pending' = IF out.err = "" THEN data ELSE NoVal
       /\ saved' = TRUE
       /\ described' = NoConfig
       /\ SelfUnchanged
       /\ UNCHANGED <<clock, ctor>>

Exists ==
  LET out == Exists_(fs)
  IN /\ last' = Call("exists", NoVal, out)
     /\ fs' = out.fs
     /\ described' = NoConfig
     /\ SelfUnchanged
     /\ UNCHANGED <<clock, ctor, pending, saved>>

\* Time passes.
Tick ==
  /\ clock < MaxClock
  /\ clock' = clock + 1
  /\ UNCHANGED <<filepath, load_args, save_args, version, fs, ctor, last,
                 described, pending, saved>>

Next == Describe \/ Load \/ Save \/ Exists \/ Tick

Spec == Init /\ [][Next]_vars

(***************************************************************************)
(* Properties.                                                             *)
(***************************************************************************)
\* The adapter was built with default options: neither mapping was given.
DefaultOptions == ~ctor.load_args.given /\ ~ctor.save_args.given

\* A value made of None, bool, int, str, list and dict with str keys only.
RECURSIVE IsJsonNative(_)
IsJsonNative(o) ==
  CASE o.t \in {"none", "bool", "int", "str"} -> TRUE
    [] o.t = "list" -> \A i \in 1..Len(o.s) : IsJsonNative(o.s[i])
    [] o.t = "dict" ->
         \A i \in 1..Len(o.s) : o.s[i].s[1].t = "str" /\ IsJsonNative(o.s[i].s[2])
    [] OTHER -> FALSE

IsPrefixOf(a, b) == Len(a) <= Len(b) /\ SubSeq(b, 1, Len(a)) = a

\* The indentation the constructor's save_args ask for.
AskedIndent ==
  IF ctor.save_args.given /\ "indent" \in DOMAIN ctor.save_args.map
  THEN ctor.save_args.map["indent"] ELSE 4

\* C1 as stated: with default options, a load() after a save(v) that
\* completed without error returns a value equal to v, for every value v
\* that json can serialize.
C1_RoundTripAnyValue ==
  (last.op = "load" /\ pending # NoVal /\ DefaultOptions)
    => (last.err = "" /\ last.ret = pending)

\* C1 amended: with default options, a load() after a save(v) that completed
\* without error returns a value equal to v, whatever the file held before,
\* when v is made of None, bool, int, str, list and dict with str keys.
C1_RoundTripNative ==
  (last.op = "load" /\ pending # NoVal /\ DefaultOptions /\ IsJsonNative(pending))
    => (last.err = "" /\ last.ret = pending)

C1_Witness ==
  /\ last.op = "load" /\ DefaultOptions
  /\ pending = MyDict /\ last.ret = MyDict

\* C2: exists() returns false before any save has been made, and true after
\* a save() that completed successfully.
C2_ExistsFollowsSave ==
  last.op = "exists"
    => /\ ~saved => ~last.flag
       /\ pending # NoVal => last.flag

C2_Witness ==
  last.op = "exists" /\ pending # NoVal /\ last.flag

\* C3: exists() raises nothing; it returns false when the load path cannot
\* be resolved, and otherwise true exactly when the resolved path is a
\* regular file (false for a directory and for a missing path).
C3_ExistsSwallowsResolution ==
  last.op = "exists"
    => LET r == GetLoadPath(fs, filepath, version)
       IN /\ last.err = ""
          /\ ~r.ok => ~last.flag
          /\ r.ok => (last.flag <=> (r.path \in DOMAIN fs /\ fs[r.path].kind = "file"))

C3_Witness ==
  /\ last.op = "exists" /\ last.err = "" /\ ~last.flag
  /\ ~GetLoadPath(fs, filepath, version).ok

\* C4: when the consistency check after the write finds the load path and
\* the save path different, save() raises, and the file written at the save
\* path holds the encoded value and its parent directories are in place.
C4_NoRollback ==
  (last.op = "save" /\ last.at = "check")
    => /\ last.err = "DataSetError"
       /\ last.path \in DOMAIN fs
       /\ fs[last.path] = FileNode(Encode(last.arg, AskedIndent, 0).toks)
       /\ \A q \in Prefixes(Parent(last.path)) : q \in DOMAIN fs /\ fs[q].kind = "dir"

C4_Witness ==
  /\ last.op = "save" /\ last.at = "check" /\ last.err = "DataSetError"
  /\ last.arg = MyDict
  /\ IsFile(fs, last.path)

\* C5: load() returns no value when the load path cannot be resolved (it
\* raises the resolver's DataSetError) or when the resolved path does not
\* exist (it raises FileNotFoundError).
C5_LoadFailsLoudly ==
  last.op = "load"
    => LET r == GetLoadPath(fs, filepath, version)
       IN /\ ~r.ok => (last.ret = NoVal /\ last.err = "DataSetError")
          /\ (r.ok /\ r.path \notin DOMAIN fs)
               => (last.ret = NoVal /\ last.err = "FileNotFoundError")

C5_Witness ==
  /\ last.op = "load" /\ last.err = "FileNotFoundError" /\ last.ret = NoVal
  /\ last.path \notin DOMAIN fs

C7_ParentsCreated ==
  (last.op = "save" /\ last.at # "save_path")
    => /\ last.at # "mkdir"
       /\ \A q \in Prefixes(Parent(last.path)) : q \in DOMAIN fs /\ fs[q].kind = "dir"

C7_Witness ==
  /\ last.op = "save" /\ last.err = ""
  /\ last.path = <<"data", "test.json", "2", "test.json">>
  /\ IsFile(fs, <<"data", "test.json", "1", "test.json">>)

\* C8: no call changes the adapter's filepath, load options, save options
\* or version; describe() returns exactly these four, raises nothing and
\* leaves the filesystem alone.
C8_Stateless ==
  [][/\ filepath' = filepath /\ load_args' = load_args
     /\ save_args' = save_args /\ version' = version
     /\ filepath' = ctor.filepath /\ version' = ctor.version
     /\ last'.op = "describe"
          => /\ described' = [filepath |-> filepath, load_args |-> load_args,
                              save_args |-> save_args, version |-> version]
             /\ last'.err = ""
             /\ fs' = fs]_vars

C8_Witness ==
  /\ last.op = "describe" /\ saved /\ fs # EmptyFs
  /\ described.filepath = ctor.filepath /\ described.version = ctor.version

\* C9: when the dump fails after the file was opened for writing, save()
\* raises the failure, and the file at the save path holds only the part of
\* the new encoding written before the failure (empty or truncated, not a
\* JSON document); a document it held before is gone.
C9_NoPartialWriteProtection ==
  [][(last'.op = "save" /\ last'.at = "dump")
       => LET p == last'.path
              enc == Encode(last'.arg, save_args["indent"], 0)
          IN /\ last'.err \in {"TypeError", "OSError"}
             /\ pending' = NoVal
             /\ p \in DOMAIN fs' /\ fs'[p].kind = "file"
             /\ IsPrefixOf(fs'[p].data, enc.toks)
             /\ enc.ok => Len(fs'[p].data) < Len(enc.toks)
             /\ ~Decode(fs'[p].data).ok
             /\ (IsFile(fs, p) /\ Decode(fs[p].data).ok) => fs'[p].data # fs[p].data]_vars

C9_Witness ==
  /\ last.op = "save" /\ last.at = "dump" /\ last.err = "TypeError"
  /\ IsFile(fs, last.path) /\ fs[last.path].data # <<>>
  /\ ~Decode(fs[last.path].data).ok

\* C10: load() and exists() leave the filesystem as it is, whether they
\* succeed or fail; a step that changes the filesystem is a save().
C10_ReadOnly ==
  [][/\ last'.op \in {"load", "exists"} => fs' = fs
     /\ fs' # fs => last'.op = "save"]_vars

C10_Witness ==
  /\ last.op = "load" /\ last.err = "FileNotFoundError"
  /\ saved /\ fs # EmptyFs

====
